---- MODULE Spec2Model ----
(***************************************************************************)
(* Preset preview / apply / cancel workflow of Dialogs::SysConfigDialog    *)
(* (pcsx2/gui/Dialogs/SysConfigDialog.cpp).                                *)
(*                                                                         *)
(* g_Conf is the authoritative configuration.  The dialog holds a slider   *)
(* and a checkbox; every change of either runs UpdateGuiForPreset, which   *)
(* builds a local copy of g_Conf, applies the preset to it and hands it to *)
(* the preset-aware panels and to the main menu.  Apply() writes the       *)
(* widgets into g_Conf, Cancel() hands g_Conf itself to the main menu.     *)
(*                                                                         *)
(* AppConfig::IsOkApplyPreset, the panels and the main frame live in other *)
(* files of the program; they are modelled from their documented contract. *)
(***************************************************************************)
EXTENDS Integers, FiniteSets, Sequences, TLC

\* ---------------------------------------------------------------- bounds
\* Number of pages held by the listbook (the dialog adds 8; which of them
\* are preset-aware is decided by their classes, outside this file).
NumPanels == 2
\* Largest value of the preset-independent setting carried by the config.
MaxOther == 1

\* ------------------------------------------------------------- constants
\* AppConfig::GetMaxPresetIndex(): the tooltip lists presets 1) .. 6).
GetMaxPresetIndex == 5

Panels == 1..NumPanels
NoSnap == [none |-> TRUE]
NoPreview == <<>>

\* The preset table's indices.
PresetIndices == 0..GetMaxPresetIndex

\* The range the slider control is constructed with.
SliderRange_offByOne == 0..(GetMaxPresetIndex + 1)
SliderRange == 0..GetMaxPresetIndex

\* ------------------------------------------------------------- AppConfig
\* The fixed bundle of preset-governed values of preset n: presets enable
\* the patches and select speed hacks of growing aggressiveness.
PresetBundle(n) == [EnablePatches |-> TRUE, Speedhacks |-> n]

\* AppConfig::IsOkApplyPreset(n, false): writes the bundle of preset n and
\* always enables presets.
IsOkApplyPreset(conf, n) ==
    [conf EXCEPT !.PresetIndex = n,
                 !.EnablePresets = TRUE,
                 !.EnablePatches = PresetBundle(n).EnablePatches,
                 !.Speedhacks = PresetBundle(n).Speedhacks]

\* A configuration as the program can hold it: with presets enabled the
\* preset-governed values are those of the preset.
AppConfigs ==
    { c \in [PresetIndex : PresetIndices, EnablePresets : BOOLEAN,
             EnablePatches : BOOLEAN, Speedhacks : PresetIndices,
             Other : 0..MaxOther] :
        c.EnablePresets =>
            /\ c.EnablePatches = PresetBundle(c.PresetIndex).EnablePatches
            /\ c.Speedhacks = PresetBundle(c.PresetIndex).Speedhacks }

VARIABLES
    g_Conf,            \* *g_Conf, the authoritative configuration
    dlg,               \* "closed", "open", "applying" (between Apply() and the settings-applied event)
    m_listbook,        \* TRUE once the constructor created the listbook
    m_slider_presets,  \* m_slider_presets->GetValue()
    m_check_presets,   \* m_check_presets->IsChecked()
    isSpecific,        \* page -> IsSpecificConfig(); pages are interchangeable, the aware ones are numbered first
    pages,             \* page -> configuration the page displays
    mainFrame,         \* GetMainFramePtr() != NULL
    menu,              \* configuration the main menu displays
    lastOp,            \* the operation that produced this state
    lastPreview,       \* <<presetIndex, presetsEnabled>> of the last UpdateGuiForPreset of the session
    panelSnap,         \* 'preset' as handed to the panels by the last operation
    menuSnap,          \* configuration handed to the main menu by the last operation
    pageRecv,          \* page -> ApplyConfigToGui was called on it by the last operation
    confAtOpen,        \* g_Conf when the dialog was constructed
    menuAtOpen,        \* menu when the dialog was constructed
    sessionCommitted,  \* Apply() ran in this session
    menuPending,       \* a preview reached the menu and the menu was not re-aligned since
    repeated           \* the last two operations were UpdateGuiForPreset with equal arguments

vars == <<g_Conf, dlg, m_listbook, m_slider_presets, m_check_presets, isSpecific,
          pages, mainFrame, menu, lastOp, lastPreview, panelSnap, menuSnap,
          pageRecv, confAtOpen, menuAtOpen, sessionCommitted, menuPending,
          repeated>>

NoneRecv == [p \in Panels |-> FALSE]

Init ==
    /\ g_Conf \in AppConfigs
    /\ dlg = "closed"
    /\ m_listbook = FALSE
    /\ m_slider_presets = 0
    /\ m_check_presets = FALSE
    /\ \E aware \in 0..NumPanels : isSpecific = [p \in Panels |-> p <= aware]
    /\ pages = [p \in Panels |-> g_Conf]
    /\ mainFrame \in BOOLEAN
    /\ menu = IF mainFrame THEN g_Conf ELSE NoSnap
    /\ lastOp = "none"
    /\ lastPreview = NoPreview
    /\ panelSnap = NoSnap
    /\ menuSnap = NoSnap
    /\ pageRecv = NoneRecv
    /\ confAtOpen = g_Conf
    /\ menuAtOpen = menu
    /\ sessionCommitted = FALSE
    /\ menuPending = FALSE
    /\ repeated = FALSE

\* ------------------------------------------------- panels and main frame
\* BaseApplicableConfigPanel_SpecificConfig::ApplyConfigToGui: the page
\* displays the configuration it is handed.
Panel_ApplyConfigToGui(shown, conf) == conf

\* MainEmuFrame::ApplyConfigToGui: the menu displays the configuration it
\* is handed (values, and gray-out from EnablePresets).
MainFrame_ApplyConfigToGui(shown, conf) == conf

\* MainEmuFrame::CommitPreset_noTrigger: the menu writes the preset-governed
\* values it displays into g_Conf, without a settings-applied event.
CommitPreset_noTrigger(conf, shown) ==
    [conf EXCEPT !.EnablePatches = shown.EnablePatches,
                 !.Speedhacks = shown.Speedhacks]

\* ---------------------------------------------------- UpdateGuiForPreset
\* if( !m_listbook ) return;
ShouldBroadcast_skipRepeat(presetIndex, presetsEnabled) ==
    m_listbook /\ ~(lastOp = "preview" /\ lastPreview = <<presetIndex, presetsEnabled>>)
ShouldBroadcast(presetIndex, presetsEnabled) == m_listbook

\* AppConfig preset = *g_Conf; preset.IsOkApplyPreset(presetIndex, false);
\* preset.EnablePresets = presetsEnabled;
PresetSnapshot_noOverride(conf, presetIndex, presetsEnabled) ==
    IsOkApplyPreset(conf, presetIndex)
PresetSnapshot(conf, presetIndex, presetsEnabled) ==
    [IsOkApplyPreset(conf, presetIndex) EXCEPT !.EnablePresets = presetsEnabled]

\* preset.EnablePresets = true;  (before the main frame is handed 'preset')
MenuSnapshot_notForced(preset) == preset
MenuSnapshot(preset) == [preset EXCEPT !.EnablePresets = TRUE]

\* 'preset' is a by-value copy: *g_Conf after the function is *g_Conf before.
StoreAfterPreview_byReference(conf, preset) == preset
StoreAfterPreview(conf, preset) == conf

\* The page loop: only pages with IsSpecificConfig() are handed 'preset'.
PageReceives_all(p) == TRUE
PageReceives(p) == isSpecific[p]

UpdateGuiForPreset(presetIndex, presetsEnabled) ==
    LET preset == PresetSnapshot(g_Conf, presetIndex, presetsEnabled)
        go == ShouldBroadcast(presetIndex, presetsEnabled)
    IN  /\ pages' = [p \in Panels |->
                        IF go /\ PageReceives(p)
                        THEN Panel_ApplyConfigToGui(pages[p], preset)
                        ELSE pages[p]]
        /\ pageRecv' = [p \in Panels |-> go /\ PageReceives(p)]
        /\ panelSnap' = IF go THEN preset ELSE NoSnap
        /\ menu' = IF go /\ mainFrame
                   THEN MainFrame_ApplyConfigToGui(menu, MenuSnapshot(preset))
                   ELSE menu
        /\ menuSnap' = IF go /\ mainFrame THEN MenuSnapshot(preset) ELSE NoSnap
        /\ menuPending' = (menuPending \/ (go /\ mainFrame))
        /\ g_Conf' = StoreAfterPreview(g_Conf, preset)
        /\ repeated' = (lastOp = "preview" /\ lastPreview = <<presetIndex, presetsEnabled>>)
        /\ lastPreview' = <<presetIndex, presetsEnabled>>
        /\ lastOp' = "preview"

\* ------------------------------------------------------------ operations
\* SysConfigDialog::SysConfigDialog + AddPresetsControl: the widgets start
\* from g_Conf, the pages load g_Conf.
Open ==
    /\ dlg = "closed"
    /\ dlg' = "open"
    /\ m_listbook' = TRUE
    /\ m_slider_presets' = g_Conf.PresetIndex
    /\ m_check_presets' = g_Conf.EnablePresets
    /\ pages' = [p \in Panels |-> g_Conf]
    /\ confAtOpen' = g_Conf
    /\ menuAtOpen' = menu
    /\ sessionCommitted' = FALSE
    /\ lastPreview' = NoPreview
    /\ panelSnap' = NoSnap
    /\ menuSnap' = NoSnap
    /\ pageRecv' = NoneRecv
    /\ lastOp' = "open"
    /\ repeated' = FALSE
    /\ UNCHANGED <<g_Conf, isSpecific, mainFrame, menu, menuPending>>

\* Preset_Scroll: the slider (enabled only while the box is checked) takes
\* a value of its range; thumb-track and scroll-changed both arrive, so the
\* value may be the one it already has.
Preset_Scroll(v) ==
    /\ dlg = "open"
    /\ m_check_presets
    /\ m_slider_presets' = v
    /\ UpdateGuiForPreset(v, m_check_presets)
    /\ UNCHANGED <<dlg, m_listbook, m_check_presets, isSpecific, mainFrame,
                   confAtOpen, menuAtOpen, sessionCommitted>>

\* Presets_Toggled: the checkbox flips.
Presets_Toggled ==
    /\ dlg = "open"
    /\ m_check_presets' = ~m_check_presets
    /\ UpdateGuiForPreset(m_slider_presets, ~m_check_presets)
    /\ UNCHANGED <<dlg, m_listbook, m_slider_presets, isSpecific, mainFrame,
                   confAtOpen, menuAtOpen, sessionCommitted>>

\* g_Conf->EnablePresets = m_check_presets->IsChecked();
\* g_Conf->PresetIndex = m_slider_presets->GetValue();
Apply_Store_noIndex(conf, slider, check) == [conf EXCEPT !.EnablePresets = check]
Apply_Store_noEnable(conf, slider, check) == [conf EXCEPT !.PresetIndex = slider]
Apply_Store(conf, slider, check) ==
    [conf EXCEPT !.EnablePresets = check, !.PresetIndex = slider]

\* SysConfigDialog::Apply
Apply ==
    /\ dlg = "open"
    /\ dlg' = "applying"
    /\ g_Conf' = LET written == Apply_Store(g_Conf, m_slider_presets, m_check_presets)
                 IN  IF mainFrame THEN CommitPreset_noTrigger(written, menu)
                                  ELSE written
    /\ sessionCommitted' = TRUE
    /\ panelSnap' = NoSnap
    /\ menuSnap' = NoSnap
    /\ pageRecv' = NoneRecv
    /\ lastOp' = "commit"
    /\ repeated' = FALSE
    /\ UNCHANGED <<m_listbook, m_slider_presets, m_check_presets, isSpecific,
                   pages, mainFrame, menu, lastPreview, confAtOpen, menuAtOpen,
                   menuPending>>

\* What follows Apply(): the preset-aware pages write the values they
\* display into g_Conf and the global settings-applied event re-aligns the
\* menu with g_Conf.  "Apply" keeps the dialog, "OK" closes it.
PagesWrite(conf) ==
    IF \E p \in Panels : isSpecific[p]
    THEN LET p == CHOOSE q \in Panels : isSpecific[q]
         IN  [conf EXCEPT !.EnablePatches = pages[p].EnablePatches,
                          !.Speedhacks = pages[p].Speedhacks]
    ELSE conf

SettingsApplied(closing) ==
    /\ dlg = "applying"
    /\ dlg' = IF closing THEN "closed" ELSE "open"
    /\ m_listbook' = ~closing
    /\ g_Conf' = PagesWrite(g_Conf)
    /\ menu' = IF mainFrame THEN MainFrame_ApplyConfigToGui(menu, g_Conf') ELSE menu
    /\ menuSnap' = IF mainFrame THEN g_Conf' ELSE NoSnap
    /\ menuPending' = FALSE
    /\ panelSnap' = NoSnap
    /\ pageRecv' = NoneRecv
    /\ lastOp' = "applied"
    /\ repeated' = FALSE
    /\ UNCHANGED <<m_slider_presets, m_check_presets, isSpecific, pages,
                   mainFrame, lastPreview, confAtOpen, menuAtOpen,
                   sessionCommitted>>

\* The configuration Cancel() hands to the main frame: *g_Conf itself.
CancelConfig_forced(conf) == [conf EXCEPT !.EnablePresets = TRUE]
CancelConfig(conf) == conf

\* if (GetMainFramePtr())  in Cancel()
CancelReachesMenu_never == FALSE
CancelReachesMenu == mainFrame

\* SysConfigDialog::Cancel
Cancel ==
    /\ dlg = "open"
    /\ dlg' = "closed"
    /\ m_listbook' = FALSE
    /\ menu' = IF CancelReachesMenu
               THEN MainFrame_ApplyConfigToGui(menu, CancelConfig(g_Conf))
               ELSE menu
    /\ menuSnap' = IF CancelReachesMenu THEN CancelConfig(g_Conf) ELSE NoSnap
    /\ menuPending' = (menuPending /\ ~CancelReachesMenu)
    /\ panelSnap' = NoSnap
    /\ pageRecv' = NoneRecv
    /\ lastOp' = "cancel"
    /\ repeated' = FALSE
    /\ UNCHANGED <<g_Conf, m_slider_presets, m_check_presets, isSpecific, pages,
                   mainFrame, lastPreview, confAtOpen, menuAtOpen,
                   sessionCommitted>>

Next ==
    \/ Open
    \/ \E v \in SliderRange : Preset_Scroll(v)
    \/ Presets_Toggled
    \/ Apply
    \/ \E closing \in BOOLEAN : SettingsApplied(closing)
    \/ Cancel

Spec == Init /\ [][Next]_vars

\* ======================================================== properties

\* C1: the authoritative store is changed only by commit: every preview
\* step (slider scroll or checkbox toggle) and every cancel step leaves
\* every field of g_Conf as it was before the step.
C1_StoreChangedOnlyByCommit ==
    [][(lastOp' \in {"preview", "cancel"}) => (g_Conf' = g_Conf)]_vars
\* a cancel after a preview of another preset, the store still as at open
C1_Witness ==
    /\ lastOp = "cancel"
    /\ lastPreview # NoPreview
    /\ lastPreview[1] # g_Conf.PresetIndex
    /\ g_Conf = confAtOpen

\* C2: after commit the store's PresetIndex and EnablePresets are the
\* arguments of the session's most recent preview, or the values the store
\* held when the dialog was opened if there was no preview.
C2_CommitWritesLastPreview ==
    (lastOp = "commit") =>
        IF lastPreview = NoPreview
        THEN /\ g_Conf.PresetIndex = confAtOpen.PresetIndex
             /\ g_Conf.EnablePresets = confAtOpen.EnablePresets
        ELSE /\ g_Conf.PresetIndex = lastPreview[1]
             /\ g_Conf.EnablePresets = lastPreview[2]
\* a commit of a previewed index and flag that both differ from the opening ones
C2_Witness ==
    /\ lastOp = "commit"
    /\ lastPreview # NoPreview
    /\ lastPreview[1] # confAtOpen.PresetIndex
    /\ lastPreview[2] # confAtOpen.EnablePresets

\* C3: every preview that reaches the main menu hands it a snapshot with
\* EnablePresets = TRUE, whatever the caller's flag and the store's flag.
C3_MenuSnapshotEnabled ==
    (lastOp = "preview" /\ menuSnap # NoSnap) => (menuSnap.EnablePresets = TRUE)
\* a preview with the flag off, over a store with presets off
C3_Witness ==
    /\ lastOp = "preview"
    /\ menuSnap # NoSnap
    /\ lastPreview[2] = FALSE
    /\ g_Conf.EnablePresets = FALSE

\* C4 as stated: cancel hands the main menu the store's values with the
\* enablement flag forced to TRUE.
C4_CancelForcesEnable ==
    (lastOp = "cancel" /\ menuSnap # NoSnap) =>
        /\ menuSnap.PresetIndex = g_Conf.PresetIndex
        /\ menuSnap.EnablePatches = g_Conf.EnablePatches
        /\ menuSnap.Speedhacks = g_Conf.Speedhacks
        /\ menuSnap.Other = g_Conf.Other
        /\ menuSnap.EnablePresets = TRUE
\* C4 amended: cancel hands the main menu the current, unmodified store
\* itself, every field included: the enablement flag is the store's own
\* EnablePresets and is not forced.
C4_CancelBroadcastsStore ==
    (lastOp = "cancel" /\ mainFrame) => (menuSnap = g_Conf)
\* a cancel after a preview, over a store with presets off
C4_Witness ==
    /\ lastOp = "cancel"
    /\ mainFrame
    /\ lastPreview # NoPreview
    /\ g_Conf.EnablePresets = FALSE
    /\ menuSnap.EnablePresets = FALSE

\* C5 as stated: when commit returns, store, dialog and menu agree on the
\* preset index and on the enablement flag.
C5_CommitAllAgree ==
    (lastOp = "commit") =>
        /\ g_Conf.PresetIndex = m_slider_presets
        /\ g_Conf.EnablePresets = m_check_presets
        /\ mainFrame => /\ menu.PresetIndex = g_Conf.PresetIndex
                        /\ menu.EnablePresets = g_Conf.EnablePresets
\* C5 amended: when commit returns, the store's index and flag are the
\* slider's and the checkbox's, and the menu's index and preset-governed
\* values are the store's; the menu's enablement flag is left as the last
\* broadcast set it, TRUE after a preview, until the menu is re-aligned.
C5_CommitAgreesButGrayOut ==
    (lastOp = "commit") =>
        /\ g_Conf.PresetIndex = m_slider_presets
        /\ g_Conf.EnablePresets = m_check_presets
        /\ mainFrame => /\ menu.PresetIndex = g_Conf.PresetIndex
                        /\ menu.EnablePatches = g_Conf.EnablePatches
                        /\ menu.Speedhacks = g_Conf.Speedhacks
                        /\ menuPending => menu.EnablePresets = TRUE
                        /\ ~menuPending => menu.EnablePresets = g_Conf.EnablePresets
\* a commit of "presets off" after a preview: the menu still shows them on
C5_Witness ==
    /\ lastOp = "commit"
    /\ mainFrame
    /\ menuPending
    /\ g_Conf.EnablePresets = FALSE
    /\ menu.EnablePresets = TRUE
    /\ g_Conf.PresetIndex # confAtOpen.PresetIndex

\* C6: previews followed by cancel leave the menu showing what it showed
\* before the first preview, which is the unmodified store, values and
\* gray-out alike.
C6_CancelRestoresMenu ==
    (lastOp = "cancel" /\ mainFrame /\ lastPreview # NoPreview /\ ~sessionCommitted) =>
        /\ menu = menuAtOpen
        /\ menu = confAtOpen
\* previews of another preset, cancelled, over a store with presets off
C6_Witness ==
    /\ lastOp = "cancel"
    /\ mainFrame
    /\ ~sessionCommitted
    /\ lastPreview # NoPreview
    /\ lastPreview[1] # confAtOpen.PresetIndex
    /\ menu.EnablePresets = FALSE

\* C7: the store's PresetIndex is always within [0, GetMaxPresetIndex].
C7_PresetIndexInRange ==
    g_Conf.PresetIndex >= 0 /\ g_Conf.PresetIndex <= GetMaxPresetIndex
\* a commit that moved the store to the last preset
C7_Witness ==
    /\ lastOp = "commit"
    /\ g_Conf.PresetIndex = GetMaxPresetIndex
    /\ confAtOpen.PresetIndex = 0

C9_OnlyAwarePagesReceive ==
    [][(lastOp' = "preview") =>
        \A p \in Panels :
            /\ pageRecv'[p] <=> isSpecific[p]
            /\ isSpecific[p] => pages'[p] = panelSnap'
            /\ ~isSpecific[p] => pages'[p] = pages[p]]_vars
\* a preview with one page called and another left showing something else
C9_Witness ==
    /\ lastOp = "preview"
    /\ \E p \in Panels : pageRecv[p] /\ pages[p] = panelSnap
    /\ \E q \in Panels : ~pageRecv[q] /\ pages[q] # panelSnap

\* C10: the snapshot handed to the pages by previewPreset(i, e) has
\* PresetIndex = i, the bundle of preset i and EnablePresets = e, and the
\* store's other fields, whatever the store's own index and flag are.
C10_PanelSnapshotExact ==
    (lastOp = "preview" /\ panelSnap # NoSnap) =>
        panelSnap = [PresetIndex |-> lastPreview[1],
                     EnablePresets |-> lastPreview[2],
                     EnablePatches |-> PresetBundle(lastPreview[1]).EnablePatches,
                     Speedhacks |-> PresetBundle(lastPreview[1]).Speedhacks,
                     Other |-> g_Conf.Other]
\* store (1, true), preview (3, false)
C10_Witness ==
    /\ lastOp = "preview"
    /\ panelSnap # NoSnap
    /\ g_Conf.PresetIndex = 1
    /\ g_Conf.EnablePresets = TRUE
    /\ lastPreview = <<3, FALSE>>

====
